---- MODULE Spec2Model ----
(***************************************************************************)
(* Model of the sandboxed file tools of src/api.py (class AssistantFnc).   *)
(*                                                                         *)
(* A string is a sequence of characters ("CR" and "LF" stand for "\r" and   *)
(* "\n").  A path is a sequence of names (each name a string); <<>> is the *)
(* filesystem root "/".  The filesystem is a function from the paths that  *)
(* exist to their entries.                                                 *)
(* No operation of api.py creates a symbolic link and the model starts     *)
(* without any, so Path.resolve() is the lexical elimination of "..".      *)
(***************************************************************************)
EXTENDS Integers, Sequences, FiniteSets, TLC

VARIABLES fs, pc, call, ret, exc

vars == <<fs, pc, call, ret, exc>>

(***************************************************************************)
(* Bounds                                                                  *)
(***************************************************************************)
\* largest number of entries below the scratch directory: a call that
\* would leave more is not taken
MaxEntries == 3

(***************************************************************************)
(* Strings                                                                 *)
(***************************************************************************)
S_a == <<"a">>
S_b == <<"b">>
S_c == <<"c">>
S_dotdot == <<".", ".">>
S_marker == <<"(", "F", "o", "l", "d", "e", "r", ")">>

\* code point of each character that occurs in a name or a listing line
Ord ==
  (" " :> 32) @@ ("(" :> 40) @@ (")" :> 41) @@ ("." :> 46) @@ ("/" :> 47)
  @@ ("F" :> 70) @@ ("a" :> 97) @@ ("b" :> 98) @@ ("c" :> 99) @@ ("d" :> 100)
  @@ ("e" :> 101) @@ ("l" :> 108) @@ ("o" :> 111) @@ ("r" :> 114)
  @@ ("s" :> 115) @@ ("w" :> 119) @@ ("x" :> 120)

\* s < t as Python compares str values: code point by code point
RECURSIVE StrLess(_, _)
StrLess(s, t) ==
  IF t = <<>> THEN FALSE
  ELSE IF s = <<>> THEN TRUE
  ELSE IF Ord[Head(s)] # Ord[Head(t)] THEN Ord[Head(s)] < Ord[Head(t)]
  ELSE StrLess(Tail(s), Tail(t))

\* str.endswith
EndsWith(s, suffix) ==
  /\ Len(s) >= Len(suffix)
  /\ SubSeq(s, Len(s) - Len(suffix) + 1, Len(s)) = suffix

\* str.strip(), for the whitespace character of the model
RECURSIVE LStrip(_)
LStrip(s) == IF s # <<>> /\ Head(s) = " " THEN LStrip(Tail(s)) ELSE s

RECURSIVE RStrip(_)
RStrip(s) ==
  IF s # <<>> /\ s[Len(s)] = " " THEN RStrip(SubSeq(s, 1, Len(s) - 1)) ELSE s

Strip(s) == RStrip(LStrip(s))

\* str.split("/")
RECURSIVE SplitSlash(_, _)
SplitSlash(s, cur) ==
  IF s = <<>> THEN <<cur>>
  ELSE IF Head(s) = "/" THEN <<cur>> \o SplitSlash(Tail(s), <<>>)
  ELSE SplitSlash(Tail(s), Append(cur, Head(s)))

\* "/".join
RECURSIVE JoinSlash(_)
JoinSlash(names) ==
  IF names = <<>> THEN <<>>
  ELSE IF Len(names) = 1 THEN names[1]
  ELSE names[1] \o <<"/">> \o JoinSlash(Tail(names))

(***************************************************************************)
(* pathlib                                                                 *)
(***************************************************************************)
\* Path(s): PurePosixPath parsing.  A leading "/" makes the path absolute;
\* empty segments and "." segments are dropped, ".." segments are kept.
PathOf(s) ==
  LET segs == SplitSlash(s, <<>>)
      keep == SelectSeq(segs, LAMBDA g : g # <<>> /\ g # <<".">>)
  IN [abs |-> (s # <<>> /\ Head(s) = "/"), segs |-> keep]

\* Path.parts: the root "/" counts as a part of an absolute path
HasParts(pp) == pp.abs \/ pp.segs # <<>>

\* self.scratch_dir: the resolved scratch directory /w/s
ScratchDir == << <<"w">>, <<"s">> >>

\* self.scratch_dir / clean_path
JoinScratch(pp) == IF pp.abs THEN pp.segs ELSE ScratchDir \o pp.segs

\* Path.resolve() without symbolic links: ".." removes the last component,
\* and stays at "/" when there is none
RECURSIVE Resolve(_, _)
Resolve(segs, acc) ==
  IF segs = <<>> THEN acc
  ELSE IF Head(segs) = S_dotdot
       THEN Resolve(Tail(segs),
                    IF acc = <<>> THEN acc ELSE SubSeq(acc, 1, Len(acc) - 1))
       ELSE Resolve(Tail(segs), Append(acc, Head(segs)))

\* Path.is_relative_to: base is path or an ancestor of path
IsRelativeTo(path, base) ==
  /\ Len(path) >= Len(base)
  /\ SubSeq(path, 1, Len(base)) = base

Parent(path) == IF path = <<>> THEN path ELSE SubSeq(path, 1, Len(path) - 1)

\* Path.relative_to(self.scratch_dir)
RelativeTo(path, base) == SubSeq(path, Len(base) + 1, Len(path))

(***************************************************************************)
(* _validate_path                                                          *)
(***************************************************************************)
\* _validate_path without the is_relative_to test
ValidatePath_NoAncestryTest(relative_path) ==
  LET clean_path == PathOf(Strip(relative_path))
      full_path  == Resolve(JoinScratch(clean_path), <<>>)
  IN IF ~HasParts(clean_path)
       THEN [exc |-> "ValueError: Empty path is invalid", path |-> <<>>]
     ELSE [exc |-> "none", path |-> full_path]

ValidatePath(relative_path) ==
  LET clean_path == PathOf(Strip(relative_path))
      full_path  == Resolve(JoinScratch(clean_path), <<>>)
  IN IF ~HasParts(clean_path)
       THEN [exc |-> "ValueError: Empty path is invalid", path |-> <<>>]
     ELSE IF ~IsRelativeTo(full_path, ScratchDir)
       THEN [exc |-> "ValueError: Path traversal attempt detected", path |-> <<>>]
     ELSE [exc |-> "none", path |-> full_path]

(***************************************************************************)
(* The filesystem                                                          *)
(***************************************************************************)
Dir == [kind |-> "dir", data |-> <<>>]
File(data) == [kind |-> "file", data |-> data]

Exists(f, path) == path \in DOMAIN f
IsDir(f, path) == path \in DOMAIN f /\ f[path].kind = "dir"
IsFile(f, path) == path \in DOMAIN f /\ f[path].kind = "file"

\* the longest prefix of path that exists ("/" always does)
NearestExisting(f, path) ==
  LET k == CHOOSE k \in 0..Len(path) :
             /\ SubSeq(path, 1, k) \in DOMAIN f
             /\ \A j \in 0..Len(path) : SubSeq(path, 1, j) \in DOMAIN f => j <= k
  IN SubSeq(path, 1, k)

\* os.mkdir(path)
OsMkdir(f, path) ==
  IF Exists(f, path) THEN [exc |-> "FileExistsError", fs |-> f]
  ELSE LET a == NearestExisting(f, Parent(path))
       IN IF f[a].kind # "dir" THEN [exc |-> "NotADirectoryError", fs |-> f]
          ELSE IF a # Parent(path) THEN [exc |-> "FileNotFoundError", fs |-> f]
          ELSE [exc |-> "none", fs |-> f @@ (path :> Dir)]

\* Path.mkdir(parents=..., exist_ok=...)
RECURSIVE Mkdir(_, _, _, _)
Mkdir(f, path, parents, exist_ok) ==
  LET m == OsMkdir(f, path)
  IN IF m.exc = "none" THEN m
     ELSE IF m.exc = "FileNotFoundError"
       THEN IF ~parents \/ Parent(path) = path THEN m
            ELSE LET up == Mkdir(f, Parent(path), TRUE, TRUE)
                 IN IF up.exc # "none" THEN up
                    ELSE Mkdir(up.fs, path, FALSE, exist_ok)
     ELSE IF ~exist_ok \/ ~IsDir(f, path) THEN m
     ELSE [exc |-> "none", fs |-> f]

\* shutil.rmtree(path) of a directory: the directory and all below it go
Rmtree(f, path) ==
  [q \in {q \in DOMAIN f : ~IsRelativeTo(q, path)} |-> f[q]]

\* shutil.move(src, dst) with dst absent: os.rename, which the kernel
\* refuses (EINVAL) when dst lies inside the directory src; shutil then
\* raises Error("Cannot move a directory ... into itself")
ShutilMove(f, src, dst) ==
  IF ~Exists(f, src) THEN [exc |-> "FileNotFoundError", fs |-> f]
  ELSE IF ~IsDir(f, Parent(dst)) THEN [exc |-> "NotADirectoryError", fs |-> f]
  ELSE IF IsRelativeTo(dst, src) THEN [exc |-> "shutil.Error", fs |-> f]
  ELSE LET stay  == {q \in DOMAIN f : ~IsRelativeTo(q, src)}
           moved == {dst \o RelativeTo(q, src) : q \in DOMAIN f \ stay}
       IN [exc |-> "none",
           fs  |-> [q \in stay \cup moved |->
                      IF q \in stay THEN f[q]
                      ELSE f[src \o RelativeTo(q, dst)]]]

\* Path.write_text(content, encoding="utf-8"): open(mode="w") creates or
\* truncates the file, then the text is written ("\n" stays "\n" on posix)
WriteText(f, path, content) ==
  IF IsDir(f, path) THEN [exc |-> "IsADirectoryError", fs |-> f]
  ELSE IF ~IsDir(f, Parent(path))
    THEN [exc |-> IF Exists(f, Parent(path)) \/
                     f[NearestExisting(f, Parent(path))].kind # "dir"
                  THEN "NotADirectoryError" ELSE "FileNotFoundError",
          fs |-> f]
  ELSE [exc |-> "none",
        fs |-> [q \in DOMAIN f \cup {path} |->
                  IF q = path THEN File(content) ELSE f[q]]]

\* Path.read_text(encoding="utf-8"): text mode reads with universal
\* newlines, "\r\n" and a lone "\r" both come back as "\n"
RECURSIVE ReadText(_)
ReadText(data) ==
  IF data = <<>> THEN <<>>
  ELSE IF Head(data) = "CR"
    THEN IF Len(data) >= 2 /\ data[2] = "LF"
         THEN <<"LF">> \o ReadText(Tail(Tail(data)))
         ELSE <<"LF">> \o ReadText(Tail(data))
  ELSE <<Head(data)>> \o ReadText(Tail(data))

(***************************************************************************)
(* The callable tools.  Each returns the filesystem it leaves, the value   *)
(* it returns (message kind, text payload, listing lines) and the          *)
(* exception its handler caught and logged.                                *)
(***************************************************************************)
Ret(kind) == [kind |-> kind, text |-> <<>>, lines |-> <<>>]
Out(f, kind, e) == [fs |-> f, ret |-> Ret(kind), exc |-> e]

\* create_file without the exists() test: an existing file is rewritten
create_file_Overwriting(f, file_path, content) ==
  LET v == ValidatePath(file_path)
  IN IF v.exc # "none" THEN Out(f, "Error creating", v.exc)
     ELSE LET m == Mkdir(f, Parent(v.path), TRUE, TRUE)
          IN IF m.exc # "none" THEN Out(m.fs, "Error creating", m.exc)
             ELSE LET w == WriteText(m.fs, v.path, content)
                  IN IF w.exc # "none" THEN Out(w.fs, "Error creating", w.exc)
                     ELSE Out(w.fs, "Created", "none")

create_file(f, file_path, content) ==
  LET v == ValidatePath(file_path)
  IN IF v.exc # "none" THEN Out(f, "Error creating", v.exc)
     ELSE LET m == Mkdir(f, Parent(v.path), TRUE, TRUE)
          IN IF m.exc # "none" THEN Out(m.fs, "Error creating", m.exc)
             ELSE IF Exists(m.fs, v.path) THEN Out(m.fs, "File already exists", "none")
             ELSE LET w == WriteText(m.fs, v.path, content)
                  IN IF w.exc # "none" THEN Out(w.fs, "Error creating", w.exc)
                     ELSE Out(w.fs, "Created", "none")

read_file(f, file_path) ==
  LET v == ValidatePath(file_path)
  IN IF v.exc # "none" THEN Out(f, "Could not read", v.exc)
     ELSE IF ~Exists(f, v.path) THEN Out(f, "File not found", "none")
     ELSE IF ~IsFile(f, v.path) THEN Out(f, "Path is not a file", "none")
     ELSE [fs |-> f,
           ret |-> [kind |-> "Contents of", text |-> ReadText(f[v.path].data),
                    lines |-> <<>>],
           exc |-> "none"]

create_folder(f, folder_path, overwrite) ==
  LET v == ValidatePath(folder_path)
  IN IF v.exc # "none" THEN Out(f, "Failed to create folder", v.exc)
     ELSE IF Exists(f, v.path) /\ IsFile(f, v.path)
       THEN Out(f, "Path is a file, cannot create folder here", "none")
     ELSE IF Exists(f, v.path) /\ ~overwrite
       THEN Out(f, "Folder already exists", "none")
     ELSE LET g == IF Exists(f, v.path) THEN Rmtree(f, v.path) ELSE f
              m == Mkdir(g, v.path, TRUE, FALSE)
          IN IF m.exc # "none" THEN Out(m.fs, "Failed to create folder", m.exc)
             ELSE Out(m.fs, "Created folder", "none")

delete_folder(f, folder_path) ==
  LET v == ValidatePath(folder_path)
  IN IF v.exc # "none" THEN Out(f, "Failed to delete folder", v.exc)
     ELSE IF ~Exists(f, v.path) THEN Out(f, "Folder not found", "none")
     ELSE IF ~IsDir(f, v.path) THEN Out(f, "Path is not a directory", "none")
     ELSE Out(Rmtree(f, v.path), "Deleted folder", "none")

\* rename_file without the dest.exists() test: the move goes ahead onto an
\* existing destination
rename_file_OntoExisting(f, old_path, new_path) ==
  LET src  == ValidatePath(old_path)
      dest == ValidatePath(new_path)
  IN IF src.exc # "none" THEN Out(f, "Failed to rename", src.exc)
     ELSE IF dest.exc # "none" THEN Out(f, "Failed to rename", dest.exc)
     ELSE IF ~Exists(f, src.path) THEN Out(f, "Error: Source path does not exist", "none")
     ELSE LET m == Mkdir(f, Parent(dest.path), TRUE, TRUE)
          IN IF m.exc # "none" THEN Out(m.fs, "Failed to rename", m.exc)
             ELSE LET mv == ShutilMove(m.fs, src.path, dest.path)
                  IN IF mv.exc # "none" THEN Out(mv.fs, "Failed to rename", mv.exc)
                     ELSE Out(mv.fs, "Successfully renamed/moved", "none")

rename_file(f, old_path, new_path) ==
  LET src  == ValidatePath(old_path)
      dest == ValidatePath(new_path)
  IN IF src.exc # "none" THEN Out(f, "Failed to rename", src.exc)
     ELSE IF dest.exc # "none" THEN Out(f, "Failed to rename", dest.exc)
     ELSE IF ~Exists(f, src.path) THEN Out(f, "Error: Source path does not exist", "none")
     ELSE IF Exists(f, dest.path)
       THEN Out(f, "Error: Destination path already exists", "none")
     ELSE LET m == Mkdir(f, Parent(dest.path), TRUE, TRUE)
          IN IF m.exc # "none" THEN Out(m.fs, "Failed to rename", m.exc)
             ELSE LET mv == ShutilMove(m.fs, src.path, dest.path)
                  IN IF mv.exc # "none" THEN Out(mv.fs, "Failed to rename", mv.exc)
                     ELSE Out(mv.fs, "Successfully renamed/moved", "none")

update_file(f, file_path, new_content) ==
  LET v == ValidatePath(file_path)
  IN IF v.exc # "none" THEN Out(f, "Failed to update", v.exc)
     ELSE IF ~Exists(f, v.path) THEN Out(f, "File not found", "none")
     ELSE IF ~IsFile(f, v.path) THEN Out(f, "Path is not a file", "none")
     ELSE LET w == WriteText(f, v.path, new_content)
          IN IF w.exc # "none" THEN Out(w.fs, "Failed to update", w.exc)
             ELSE Out(w.fs, "Updated", "none")

delete_file(f, file_path) ==
  LET v == ValidatePath(file_path)
  IN IF v.exc # "none" THEN Out(f, "Failed to delete", v.exc)
     ELSE IF ~Exists(f, v.path) THEN Out(f, "File not found", "none")
     ELSE IF ~IsFile(f, v.path) THEN Out(f, "Path is not a file", "none")
     ELSE Out([q \in DOMAIN f \ {v.path} |-> f[q]], "Deleted", "none")

\* the order in which a directory scan yields a set of paths; the sort
\* below orders the lines by their whole text, so the listing does not
\* depend on it
RECURSIVE ScanOrder(_)
ScanOrder(S) ==
  IF S = {} THEN <<>>
  ELSE LET q == CHOOSE q \in S : TRUE IN <<q>> \o ScanOrder(S \ {q})

\* self.scratch_dir.rglob("*"): every entry below the scratch directory
\* (nothing when it is not a directory)
Rglob(f) ==
  IF ~IsDir(f, ScratchDir) THEN {}
  ELSE {q \in DOMAIN f : IsRelativeTo(q, ScratchDir) /\ q # ScratchDir}

\* self.scratch_dir.glob("*"): the entries directly in the scratch directory
Glob(f) == {q \in Rglob(f) : Len(q) = Len(ScratchDir) + 1}

FolderSuffix == <<" ">> \o S_marker

\* the line list_all appends for an entry
ItemOf(f, path) ==
  IF IsDir(f, path) THEN JoinSlash(RelativeTo(path, ScratchDir)) \o FolderSuffix
  ELSE JoinSlash(RelativeTo(path, ScratchDir))

\* key=lambda x: (not x.endswith("(Folder)"), x), compared as tuples
KeyLess(x, y) ==
  LET kx == ~EndsWith(x, S_marker)
      ky == ~EndsWith(y, S_marker)
  IN IF kx # ky THEN ~kx ELSE StrLess(x, y)

\* sorted(items, key=...): a stable sort, as insertion after the last
\* element that is not greater
RECURSIVE InsertSorted(_, _)
InsertSorted(sorted, x) ==
  IF sorted = <<>> THEN <<x>>
  ELSE IF KeyLess(x, Head(sorted)) THEN <<x>> \o sorted
  ELSE <<Head(sorted)>> \o InsertSorted(Tail(sorted), x)

RECURSIVE Sorted(_)
Sorted(items) ==
  IF items = <<>> THEN <<>>
  ELSE InsertSorted(Sorted(SubSeq(items, 1, Len(items) - 1)), items[Len(items)])

list_all(f) ==
  LET first  == ScanOrder(Rglob(f))
      second == ScanOrder(Glob(f))
      \* "path not in items" compares a Path with the strings in items and
      \* so holds for every path of the second pass
      items  == [i \in 1..Len(first) |-> ItemOf(f, first[i])]
                \o [i \in 1..Len(second) |-> ItemOf(f, second[i])]
      sorted_items == Sorted(items)
  IN IF sorted_items = <<>>
       THEN Out(f, "No files or folders found", "none")
     ELSE [fs |-> f,
           ret |-> [kind |-> "Listing", text |-> <<>>, lines |-> sorted_items],
           exc |-> "none"]

(***************************************************************************)
(* Inputs of the calls                                                     *)
(***************************************************************************)
\* relative_path arguments, as the strings the caller passes
P_a        == <<"a">>
P_b        == <<"b">>
P_a_b      == <<"a", "/", "b">>
P_a_b_c    == <<"a", "/", "b", "/", "c">>
P_marker   == S_marker
P_a_up     == <<"a", "/", ".", ".">>
P_a_b_upup == <<"a", "/", "b", "/", ".", ".", "/", ".", ".">>
P_up       == <<".", ".">>
P_up_x     == <<".", ".", "/", "x">>
P_abs_a    == <<"/", "a">>
P_empty    == <<>>
P_dot      == <<" ", ".", " ">>
P_messy    == <<" ", "a", "/", ".", "/", "b", "/">>

Paths ==
  {P_a, P_b, P_a_b, P_a_b_c, P_marker, P_a_up, P_a_b_upup, P_up, P_up_x,
   P_abs_a, P_empty, P_dot, P_messy}

\* file contents (text that utf-8 encodes): "x", "y\r" and "\r\n"
Contents == { <<"x">>, <<"y", "CR">>, <<"CR", "LF">> }

(***************************************************************************)
(* State machine.  The agent runtime dispatches one tool call at a time:   *)
(* it picks a tool and its arguments (Dispatch), the tool runs to its      *)
(* return statement (one action per tool), and the runtime takes the       *)
(* returned string (Deliver).                                              *)
(*   fs    the filesystem                                                  *)
(*   pc    "idle", "called" or "returned"                                  *)
(*   call  the tool and arguments of the call in progress                  *)
(*   ret   the value the tool returned                                     *)
(*   exc   the exception the tool's handler caught and logged              *)
(***************************************************************************)
\* a file that lies beside the scratch directory, outside the sandbox
OutsideFile == << <<"w">>, <<"x">> >>

Call(op, p, q, c, ow) == [op |-> op, p |-> p, q |-> q, c |-> c, ow |-> ow]

NoCall == Call("none", <<>>, <<>>, <<>>, FALSE)

Calls ==
  {Call("create_file", p, <<>>, c, FALSE) : p \in Paths, c \in Contents}
  \cup {Call("read_file", p, <<>>, <<>>, FALSE) : p \in Paths}
  \cup {Call("update_file", p, <<>>, c, FALSE) : p \in Paths, c \in Contents}
  \cup {Call("delete_file", p, <<>>, <<>>, FALSE) : p \in Paths}
  \cup {Call("create_folder", p, <<>>, <<>>, ow) : p \in Paths, ow \in BOOLEAN}
  \cup {Call("delete_folder", p, <<>>, <<>>, FALSE) : p \in Paths}
  \cup {Call("rename_file", p, q, <<>>, FALSE) : p \in Paths, q \in Paths}
  \cup {Call("list_all", <<>>, <<>>, <<>>, FALSE)}

\* __init__: the scratch directory exists (mkdir(parents=True,
\* exist_ok=True)) and is empty
Init ==
  /\ fs = (<<>> :> Dir) @@ (<< <<"w">> >> :> Dir) @@ (ScratchDir :> Dir)
          @@ (OutsideFile :> File(<<"x">>))
  /\ pc = "idle"
  /\ call = NoCall
  /\ ret = Ret("none")
  /\ exc = "none"

\* the entries strictly below the scratch directory
Inside(f) == {q \in DOMAIN f : IsRelativeTo(q, ScratchDir) /\ q # ScratchDir}

Fits(f) == Cardinality(Inside(f)) <= MaxEntries

Dispatch ==
  /\ pc = "idle"
  /\ \E c \in Calls : call' = c
  /\ pc' = "called"
  /\ UNCHANGED <<fs, ret, exc>>

Run(op, r) ==
  /\ pc = "called"
  /\ call.op = op
  /\ Fits(r.fs)
  /\ fs' = r.fs
  /\ ret' = r.ret
  /\ exc' = r.exc
  /\ pc' = "returned"
  /\ UNCHANGED call

CreateFile == Run("create_file", create_file(fs, call.p, call.c))

ReadFile == Run("read_file", read_file(fs, call.p))

UpdateFile == Run("update_file", update_file(fs, call.p, call.c))

DeleteFile == Run("delete_file", delete_file(fs, call.p))

CreateFolder == Run("create_folder", create_folder(fs, call.p, call.ow))

DeleteFolder == Run("delete_folder", delete_folder(fs, call.p))

RenameFile == Run("rename_file", rename_file(fs, call.p, call.q))

ListAll == Run("list_all", list_all(fs))

Deliver ==
  /\ pc = "returned"
  /\ pc' = "idle"
  /\ call' = NoCall
  /\ ret' = Ret("none")
  /\ exc' = "none"
  /\ UNCHANGED fs

Next ==
  \/ Dispatch
  \/ CreateFile
  \/ ReadFile
  \/ UpdateFile
  \/ DeleteFile
  \/ CreateFolder
  \/ DeleteFolder
  \/ RenameFile
  \/ ListAll
  \/ Deliver

Spec == Init /\ [][Next]_vars

(***************************************************************************)
(* Vocabulary of the properties                                            *)
(***************************************************************************)
PathOps ==
  {"create_file", "read_file", "update_file", "delete_file", "create_folder",
   "delete_folder", "rename_file"}

MutatingOps == PathOps \ {"read_file"}

\* the value each tool returns from its except branch
ErrorKind ==
  [op \in PathOps |->
     CASE op = "create_file"   -> "Error creating"
       [] op = "read_file"     -> "Could not read"
       [] op = "update_file"   -> "Failed to update"
       [] op = "delete_file"   -> "Failed to delete"
       [] op = "create_folder" -> "Failed to create folder"
       [] op = "delete_folder" -> "Failed to delete folder"
       [] op = "rename_file"   -> "Failed to rename"]

SuccessKinds ==
  {"Created", "Updated", "Deleted", "Created folder", "Deleted folder",
   "Successfully renamed/moved"}

EmptyPathError == "ValueError: Empty path is invalid"
TraversalError == "ValueError: Path traversal attempt detected"

\* a tool named op runs from call to return in this step
Runs(op) == pc = "called" /\ pc' = "returned" /\ call.op = op
RunsAny(ops) == pc = "called" /\ pc' = "returned" /\ call.op \in ops
Returned(op) == pc = "returned" /\ call.op = op

\* the joined and canonicalized form of a relative path
Canonical(p) == Resolve(JoinScratch(PathOf(Strip(p))), <<>>)

\* p leaves the sandbox: its canonical form is neither the root nor below it
Escapes(p) == ~IsRelativeTo(Canonical(p), ScratchDir)

\* p has no segment after trimming, or normalizes to the sandbox root
NamesRoot(p) == Canonical(p) = ScratchDir

\* p is a valid relative path: it names a place strictly inside the sandbox
StrictlyInside(p) == IsRelativeTo(Canonical(p), ScratchDir) /\ ~NamesRoot(p)

\* every ancestor of path that exists is a directory
AncestorsAreDirs(f, path) == f[NearestExisting(f, Parent(path))].kind = "dir"

(***************************************************************************)
(* C1.  A path whose canonical form leaves the sandbox is refused by       *)
(* _validate_path with the traversal error, and every path-taking tool     *)
(* called with such a path (rename_file: as either argument) returns its   *)
(* error result and leaves every entry, inside and outside the sandbox,    *)
(* as it was.                                                              *)
(***************************************************************************)
C1_TraversalRejected ==
  [][(RunsAny(PathOps) /\
      (Escapes(call.p) \/ (call.op = "rename_file" /\ Escapes(call.q))))
     => /\ fs' = fs
        /\ ret'.kind = ErrorKind[call.op]
        /\ exc' \in {TraversalError, EmptyPathError}
        /\ Escapes(call.p) => exc' = TraversalError
        /\ \A x \in {call.p, call.q} :
             Escapes(x) => ValidatePath(x).exc = TraversalError]_vars

\* rename_file has returned after a call whose source exists inside the
\* sandbox and whose destination leaves it
C1_Witness ==
  /\ Returned("rename_file")
  /\ StrictlyInside(call.p)
  /\ Exists(fs, Canonical(call.p))
  /\ Escapes(call.q)
  /\ Canonical(call.q) = OutsideFile
  /\ ret.kind = "Failed to rename"

(***************************************************************************)
(* C2.  A path with no segment after trimming, or one that normalizes to   *)
(* the sandbox root, is refused with the empty-path error by every tool    *)
(* it is passed to.                                                        *)
(***************************************************************************)
C2_RootPathRejected ==
  [][(RunsAny(PathOps) /\ NamesRoot(call.p))
     => /\ exc' = EmptyPathError
        /\ ret'.kind = ErrorKind[call.op]]_vars

(***************************************************************************)
(* C3.  The sandbox root stays a directory, and no folder removal or move  *)
(* that changes the filesystem has the root itself as its target.          *)
(***************************************************************************)
C3_RootNeverRemoved ==
  [][/\ IsDir(fs, ScratchDir) => IsDir(fs', ScratchDir)
     /\ (RunsAny({"delete_folder", "create_folder", "rename_file"}) /\ fs' # fs)
        => ValidatePath(call.p).path # ScratchDir]_vars

(***************************************************************************)
(* C4.  Round trip: create_file on a valid path that does not exist, with  *)
(* any content, succeeds, and read_file of the same path right after       *)
(* returns exactly that content.                                           *)
(***************************************************************************)
C4_CreateReadRoundTrip ==
  [][(Runs("create_file") /\ StrictlyInside(call.p)
      /\ ~Exists(fs, Canonical(call.p)))
     => /\ ret'.kind = "Created"
        /\ read_file(fs', call.p).ret.kind = "Contents of"
        /\ read_file(fs', call.p).ret.text = call.c]_vars

(***************************************************************************)
(* C5.  No overwrite: create_file on a path that names a file reports      *)
(* "already exists" and changes nothing, whatever the content passed; so   *)
(* after a create_file that created the file, a second create_file of the  *)
(* same path with any content reports "already exists" and leaves the      *)
(* content the first call wrote.                                           *)
(***************************************************************************)
C5_NoOverwrite ==
  [][Runs("create_file")
     => /\ (ValidatePath(call.p).exc = "none"
            /\ IsFile(fs, ValidatePath(call.p).path))
           => (ret'.kind = "File already exists" /\ fs' = fs)
        /\ ret'.kind = "Created"
           => /\ fs'[ValidatePath(call.p).path] = File(call.c)
              /\ \A c2 \in Contents :
                   /\ create_file(fs', call.p, c2).ret.kind = "File already exists"
                   /\ create_file(fs', call.p, c2).fs = fs']_vars

\* create_file has returned "already exists" for a file that holds another
\* content than the one passed
C5_Witness ==
  /\ Returned("create_file")
  /\ ValidatePath(call.p).exc = "none"
  /\ IsFile(fs, ValidatePath(call.p).path)
  /\ fs[ValidatePath(call.p).path].data # call.c
  /\ ret.kind = "File already exists"

(***************************************************************************)
(* rename_file                                                             *)
(***************************************************************************)
\* g is f after the entry at s (with all below it) moved to d: the subtree
\* is at d with its contents, nothing is left at s and reading s reports
\* "not found", the ancestors of d are directories, and every entry that
\* is neither in one of the two subtrees nor an ancestor of d is as it was
MovedTo(f, g, s, d, old_path) ==
  /\ \A q \in DOMAIN f :
       IsRelativeTo(q, s) =>
         /\ d \o RelativeTo(q, s) \in DOMAIN g
         /\ g[d \o RelativeTo(q, s)] = f[q]
  /\ \A q \in DOMAIN g :
       IsRelativeTo(q, d) => s \o RelativeTo(q, d) \in DOMAIN f
  /\ \A q \in DOMAIN g : ~IsRelativeTo(q, s)
  /\ read_file(g, old_path).ret.kind = "File not found"
  /\ \A k \in 0..(Len(d) - 1) : IsDir(g, SubSeq(d, 1, k))
  /\ \A q \in DOMAIN f \cup DOMAIN g :
       (~IsRelativeTo(q, s) /\ ~IsRelativeTo(q, d) /\ ~IsRelativeTo(d, q))
         => (q \in DOMAIN f /\ q \in DOMAIN g /\ f[q] = g[q])

\* the call reports that the source is missing or the destination exists
RenameRefused(kind) ==
  kind \in {"Error: Source path does not exist",
            "Error: Destination path already exists"}

\* C6 as stated.  For valid paths old and new: whenever old exists and new
\* does not, rename_file moves
\* old to new (contents and subtree kept, old gone, missing parents of new
\* created, all else unchanged); when old is missing or new exists it
\* reports an error and moves nothing.
C6_RenameMoves ==
  [][(Runs("rename_file") /\ StrictlyInside(call.p) /\ StrictlyInside(call.q))
     => LET s == Canonical(call.p)
            d == Canonical(call.q)
        IN IF Exists(fs, s) /\ ~Exists(fs, d)
             THEN /\ ret'.kind = "Successfully renamed/moved"
                  /\ MovedTo(fs, fs', s, d, call.p)
             ELSE RenameRefused(ret'.kind) /\ fs' = fs]_vars

\* C6 as amended.  For valid paths old and new: the move happens whenever old exists, new does not, new
\* is not inside old, and every existing ancestor of new is a directory;
\* when old is missing or new exists the call reports an error and moves
\* nothing.
C6_RenameMovesWhenPossible ==
  [][(Runs("rename_file") /\ StrictlyInside(call.p) /\ StrictlyInside(call.q))
     => LET s == Canonical(call.p)
            d == Canonical(call.q)
        IN /\ (Exists(fs, s) /\ ~Exists(fs, d) /\ ~IsRelativeTo(d, s)
               /\ AncestorsAreDirs(fs, d))
              => /\ ret'.kind = "Successfully renamed/moved"
                 /\ MovedTo(fs, fs', s, d, call.p)
           /\ (~Exists(fs, s) \/ Exists(fs, d))
              => (RenameRefused(ret'.kind) /\ fs' = fs)]_vars

\* rename_file has moved the folder b, with the entry below it, to a/b
C6_Witness ==
  /\ Returned("rename_file")
  /\ ret.kind = "Successfully renamed/moved"
  /\ call.p = P_b
  /\ call.q = P_a_b
  /\ IsDir(fs, ScratchDir \o <<S_a, S_b>>)
  /\ Exists(fs, ScratchDir \o <<S_a, S_b, S_c>>)
  /\ ~Exists(fs, ScratchDir \o <<S_b>>)

(***************************************************************************)
(* C7.  list_all returns one line for each entry below the sandbox root,   *)
(* and no line twice; after create_folder("a/b/c") in an empty sandbox     *)
(* the lines are "a (Folder)", "a/b (Folder)", "a/b/c (Folder)".           *)
(***************************************************************************)
C7_ListAllOncePerEntry ==
  Returned("list_all")
    => /\ Len(ret.lines) = Cardinality(Inside(fs))
       /\ \A q \in Inside(fs) : \E i \in 1..Len(ret.lines) : ret.lines[i] = ItemOf(fs, q)
       /\ \A i, j \in 1..Len(ret.lines) :
            (i # j /\ ret.lines[i] = ret.lines[j])
              => \E q1, q2 \in Inside(fs) :
                   q1 # q2 /\ ItemOf(fs, q1) = ret.lines[i] /\ ItemOf(fs, q2) = ret.lines[i]
       /\ (/\ Inside(fs) = {ScratchDir \o <<S_a>>, ScratchDir \o <<S_a, S_b>>,
                           ScratchDir \o <<S_a, S_b, S_c>>}
           /\ \A q \in Inside(fs) : IsDir(fs, q))
          => ret.lines = << S_a \o FolderSuffix,
                            S_a \o <<"/">> \o S_b \o FolderSuffix,
                            S_a \o <<"/">> \o S_b \o <<"/">> \o S_c \o FolderSuffix >>

\* the lines list_all shows for the directories, and for the files
DirLines(f) == {ItemOf(f, q) : q \in {q \in Inside(f) : IsDir(f, q)}}
FileLines(f) == {ItemOf(f, q) : q \in {q \in Inside(f) : IsFile(f, q)}}

(***************************************************************************)
(* C8.  In the output of list_all every line of a directory comes before   *)
(* every line of a file, whatever the names, and the lines of the          *)
(* directories, and those of the files, are in ascending order.            *)
(***************************************************************************)
C8_ListAllFoldersFirst ==
  Returned("list_all")
    => \A i, j \in 1..Len(ret.lines) :
         i < j =>
           LET x == ret.lines[i]
               y == ret.lines[j]
           IN /\ ~(x \in FileLines(fs) \ DirLines(fs) /\ y \in DirLines(fs) \ FileLines(fs))
              /\ (x \in DirLines(fs) /\ y \in DirLines(fs)) => ~StrLess(y, x)
              /\ (x \in FileLines(fs) /\ y \in FileLines(fs)) => ~StrLess(y, x)

(***************************************************************************)
(* C9.  create_file on a path that names a directory fails with an error   *)
(* that is not the "already exists" result, and changes nothing.           *)
(***************************************************************************)
C9_CreateFileOnDirectory ==
  [][(Runs("create_file") /\ StrictlyInside(call.p)
      /\ IsDir(fs, Canonical(call.p)))
     => /\ ret'.kind # "File already exists"
        /\ ret'.kind = "Error creating"
        /\ fs' = fs]_vars

(***************************************************************************)
(* C10.  A mutating tool that returns anything but its success result has  *)
(* left the filesystem as it was.                                          *)
(***************************************************************************)
C10_FailureChangesNothing ==
  [][(RunsAny(MutatingOps) /\ ret'.kind \notin SuccessKinds) => fs' = fs]_vars

====
